---- MODULE Spec2Model ----
(***************************************************************************)
(* State-machine model of src/components/graphing-calculator.tsx: the      *)
(* React component GraphingCalculator, its state (functions,               *)
(* functionErrors, xMin, xMax, yMin, yMax, the canvas), its event handlers *)
(* and the redraw drawGraph.                                               *)
(*                                                                         *)
(* Numbers.  A JavaScript number is modelled by the real number it stands  *)
(* for, as an exact fraction [n, d] in lowest terms with d > 0.  The       *)
(* non-finite values are the fractions with d = 0: 1/0 is +Infinity, -1/0  *)
(* is -Infinity and 0/0 is NaN, which is what JavaScript's division        *)
(* produces for those operands.  Rounding of IEEE doubles and the sign of  *)
(* zero are not modelled.                                                  *)
(***************************************************************************)
EXTENDS Integers, Sequences, FiniteSets, TLC

VARIABLES
  functions,       \* useState<FunctionEntry[]>: the function list
  functionErrors,  \* useState<FunctionError>: id -> message, a partial map
  xMin, xMax,      \* useState(-10), useState(10)
  yMin, yMax,      \* useState(-10), useState(10)
  canvas,          \* canvasRef.current: [width, height]
  plot,            \* what the last drawGraph call read and drew on the canvas
  pending,         \* a render changed a dependency: the redraw effect is due
  now,             \* Date.now()
  zoomRun,         \* history: the current run of equal zoom operations
  loop             \* position of one forEach callback run column by column

vars == <<functions, functionErrors, xMin, xMax, yMin, yMax, canvas, plot,
          pending, now, zoomRun, loop>>

----------------------------------------------------------------------------
(* Bounds of the model *)

MaxEvents == 3
MaxFuncs == 2

----------------------------------------------------------------------------
(* JavaScript numbers *)

Abs(a) == IF a < 0 THEN -a ELSE a

Sgn(a) == IF a < 0 THEN -1 ELSE IF a > 0 THEN 1 ELSE 0

RECURSIVE Gcd(_, _)
Gcd(a, b) == IF b = 0 THEN a ELSE Gcd(b, a % b)

Num(n, d) ==
  IF d = 0 THEN [n |-> Sgn(n), d |-> 0]
  ELSE LET g == Gcd(Abs(n), Abs(d))
       IN  [n |-> Sgn(d) * (n \div g), d |-> Abs(d) \div g]

Number(k) == [n |-> k, d |-> 1]

IsNaN(a) == a.d = 0 /\ a.n = 0

IsFinite(a) == a.d # 0

Neg(a) == [n |-> -a.n, d |-> a.d]

\* a + b and a - b, for finite a and b
Add(a, b) ==
  LET g == Gcd(a.d, b.d)
  IN  IF g = 1
      THEN [n |-> a.n * b.d + b.n * a.d, d |-> a.d * b.d]
      ELSE Num(a.n * (b.d \div g) + b.n * (a.d \div g), (a.d \div g) * b.d)

Sub(a, b) == Add(a, Neg(b))

\* a * b; 0 * Infinity and anything * NaN are NaN
Mul(a, b) ==
  IF a.d = 0 \/ b.d = 0 THEN Num(a.n * b.n, 0)
  ELSE LET g == Gcd(Abs(a.n), b.d)
           h == Gcd(Abs(b.n), a.d)
       IN  [n |-> (a.n \div g) * (b.n \div h), d |-> (a.d \div h) * (b.d \div g)]

\* a / b for finite a and b; x / 0 is +Infinity, -Infinity or NaN
Div(a, b) ==
  IF b.n = 0 THEN Num(a.n, 0)
  ELSE Mul(a, [n |-> Sgn(b.n) * b.d, d |-> Abs(b.n)])

\* a < b; false when either side is NaN
Lt(a, b) ==
  IF IsNaN(a) \/ IsNaN(b) THEN FALSE
  ELSE IF a.d = 0 /\ b.d = 0 THEN a.n < b.n
  ELSE a.n * b.d < b.n * a.d

\* Math.ceil and Math.floor of a finite number
Ceil(a) == -((-a.n) \div a.d)

Floor(a) == a.n \div a.d

----------------------------------------------------------------------------
(* The math-expression library (mathjs parse and evaluate), on the         *)
(* expressions of the model.  "x+" does not parse; "y" parses and its      *)
(* evaluation throws (undefined symbol); "1/x" is Infinity and "0/x" is    *)
(* NaN at x = 0.                                                           *)

Exprs == {"", " ", "x^2", "1/x", "0/x", "y", "x+"}

\* String.prototype.trim on the expressions of the model
Trim(s) == IF s = " " THEN "" ELSE s

\* parse(expression) throws: the message of the SyntaxError, "" when it parses
ParseMessage(expression) ==
  IF expression = "x+" THEN "Unexpected end of expression (char 3)" ELSE ""

\* evaluate(expression, {x}): [throws, y]
evaluate(expression, x) ==
  CASE expression = "x^2" -> [throws |-> FALSE, y |-> Mul(x, x)]
    [] expression = "1/x" -> [throws |-> FALSE, y |-> Div(Number(1), x)]
    [] expression = "0/x" -> [throws |-> FALSE, y |-> Div(Number(0), x)]
    [] OTHER -> [throws |-> TRUE, y |-> Number(0)]

----------------------------------------------------------------------------
(* drawGraph *)

PRESET_COLORS ==
  <<"#0070f3", "#ff0080", "#00cc88", "#f5a623",
    "#7928ca", "#ff4d4f", "#00b8d9", "#8c8c8c">>

\* the entry of the first render, which handleReset restores
InitialFunctions ==
  <<[id |-> 1, expression |-> "x^2", color |-> PRESET_COLORS[1],
     isVisible |-> TRUE]>>

InitialViewport ==
  [xMin |-> Number(-10), xMax |-> Number(10), yMin |-> Number(-10), yMax |-> Number(10)]

Viewport == [xMin |-> xMin, xMax |-> xMax, yMin |-> yMin, yMax |-> yMax]

ErrorIds(errors) == DOMAIN errors

\* setFunctionErrors((prev) => ({ ...prev, [id]: error }))
setFunctionError(prev, id, error) ==
  [k \in ErrorIds(prev) \cup {id} |-> IF k = id THEN error ELSE prev[k]]

\* setFunctionErrors((prev) => { delete newErrors[id] })
clearFunctionError(prev, id) ==
  [k \in ErrorIds(prev) \ {id} |-> prev[k]]

NoErrors == [k \in {} |-> ""]

\* the domain x of pixel column i
ColumnX(i, vp, cv) ==
  Add(vp.xMin, Mul(Div(Number(i), Number(cv.width)), Sub(vp.xMax, vp.xMin)))

\* the pixel row of the value y
PixelY(y, vp, cv) ==
  Mul(Number(cv.height), Div(Sub(vp.yMax, y), Sub(vp.yMax, vp.yMin)))

\* variant of the loop body without the test yPos < 0 || yPos > height
SampleStepNoClip(st, expression, i, vp, cv) ==
  LET r == evaluate(expression, ColumnX(i, vp, cv))
      yPos == PixelY(r.y, vp, cv)
  IN  IF r.throws THEN st
      ELSE IF IsNaN(r.y) \/ ~IsFinite(r.y) THEN st
      ELSE IF st.isFirstPoint
      THEN [isFirstPoint |-> FALSE,
            path |-> Append(st.path, [op |-> "moveTo", x |-> i, y |-> yPos])]
      ELSE [isFirstPoint |-> FALSE,
            path |-> Append(st.path, [op |-> "lineTo", x |-> i, y |-> yPos])]

\* one iteration of the column loop; st is [isFirstPoint, path]
SampleStep(st, expression, i, vp, cv) ==
  LET r == evaluate(expression, ColumnX(i, vp, cv))
      yPos == PixelY(r.y, vp, cv)
  IN  IF r.throws THEN st
      ELSE IF IsNaN(r.y) \/ ~IsFinite(r.y) THEN st
      ELSE IF Lt(yPos, Number(0)) \/ Lt(Number(cv.height), yPos) THEN st
      ELSE IF st.isFirstPoint
      THEN [isFirstPoint |-> FALSE,
            path |-> Append(st.path, [op |-> "moveTo", x |-> i, y |-> yPos])]
      ELSE [isFirstPoint |-> FALSE,
            path |-> Append(st.path, [op |-> "lineTo", x |-> i, y |-> yPos])]

LoopStart == [isFirstPoint |-> TRUE, path |-> <<>>]

RECURSIVE SampleFrom(_, _, _, _, _)
SampleFrom(st, expression, i, vp, cv) ==
  IF i < cv.width
  THEN SampleFrom(SampleStep(st, expression, i, vp, cv), expression, i + 1, vp, cv)
  ELSE st

\* the path stroked for one function: the calls made between beginPath and stroke
SamplePath(expression, vp, cv) == SampleFrom(LoopStart, expression, 0, vp, cv).path

\* the forEach callback on one entry; acc is [strokes, errors]
PlotFunction(func, acc, vp, cv) ==
  IF ~func.isVisible \/ Trim(func.expression) = "" THEN acc
  ELSE IF ParseMessage(func.expression) # ""
  THEN [acc EXCEPT !.errors =
          setFunctionError(@, func.id, ParseMessage(func.expression))]
  ELSE [strokes |-> Append(acc.strokes,
                      [id |-> func.id, color |-> func.color,
                       path |-> SamplePath(func.expression, vp, cv)]),
        errors |-> clearFunctionError(acc.errors, func.id)]

\* variant of the loop in which a parse error ends the whole forEach (a
\* try/catch around the loop instead of inside the callback)
RECURSIVE ForEachAborting(_, _, _, _, _)
ForEachAborting(fs, k, acc, vp, cv) ==
  IF k > Len(fs) THEN acc
  ELSE IF fs[k].isVisible /\ Trim(fs[k].expression) # ""
          /\ ParseMessage(fs[k].expression) # ""
  THEN PlotFunction(fs[k], acc, vp, cv)
  ELSE ForEachAborting(fs, k + 1, PlotFunction(fs[k], acc, vp, cv), vp, cv)

\* functions.forEach from entry k on
RECURSIVE ForEach(_, _, _, _, _)
ForEach(fs, k, acc, vp, cv) ==
  IF k > Len(fs) THEN acc
  ELSE ForEach(fs, k + 1, PlotFunction(fs[k], acc, vp, cv), vp, cv)

\* the integers first..last in increasing order without 0: the values for which
\* the body of a grid loop runs
\* variant of the grid loop with the test x < Math.floor(max)
GridValuesExclusive(first, last) ==
  LET NotAxis(v) == v # 0
  IN  SelectSeq([k \in 1..(last - first) |-> first + k - 1], NotAxis)

GridValues(first, last) ==
  LET NotAxis(v) == v # 0
  IN  SelectSeq([k \in 1..(last - first + 1) |-> first + k - 1], NotAxis)

\* vertical grid lines: xPos of every integer x from ceil(xMin) to floor(xMax)
VerticalGrid(vp, cv) ==
  LET at == GridValues(Ceil(vp.xMin), Floor(vp.xMax))
  IN  [k \in 1..Len(at) |->
         [at |-> at[k],
          pos |-> Mul(Number(cv.width),
                      Div(Sub(Number(at[k]), vp.xMin), Sub(vp.xMax, vp.xMin)))]]

\* horizontal grid lines: yPos of every integer y from ceil(yMin) to floor(yMax)
HorizontalGrid(vp, cv) ==
  LET at == GridValues(Ceil(vp.yMin), Floor(vp.yMax))
  IN  [k \in 1..Len(at) |->
         [at |-> at[k],
          pos |-> Mul(Number(cv.height),
                      Div(Sub(vp.yMax, Number(at[k])), Sub(vp.yMax, vp.yMin)))]]

\* the two axis lines: the x-axis at row yAxisPos, the y-axis at column xAxisPos
Axes(vp, cv) ==
  <<[axis |-> "x",
     pos |-> Mul(Number(cv.height), Div(vp.yMax, Sub(vp.yMax, vp.yMin)))],
    [axis |-> "y",
     pos |-> Mul(Number(cv.width), Div(Neg(vp.xMin), Sub(vp.xMax, vp.xMin)))]>>

\* drawGraph as the closure of a render with function list fs and bounds vp
\* runs it, on the canvas cv and the error map errors of the moment:
\* [plot, errors]
drawGraph(fs, vp, cv, errors) ==
  LET done == ForEach(fs, 1, [strokes |-> <<>>, errors |-> errors], vp, cv)
  IN  [plot |->
         [functions |-> fs, viewport |-> vp,
          width |-> cv.width, height |-> cv.height,
          axes |-> Axes(vp, cv),
          vGrid |-> VerticalGrid(vp, cv),
          hGrid |-> HorizontalGrid(vp, cv),
          strokes |-> done.strokes],
       errors |-> done.errors]

----------------------------------------------------------------------------
(* The component: state after mount, event handlers, effects *)

\* container.clientWidth at a resize
Widths == {6, 10}

\* container.clientWidth at mount
InitialWidth == CHOOSE w \in Widths : \A v \in Widths : v <= w

\* canvas.width = clientWidth; canvas.height = clientWidth * 0.6, an integer
CanvasOf(w) == [width |-> w, height |-> (w * 6) \div 10]

\* what the user types in an expression field
EditExprs == {" ", "1/x", "x+"}

\* the example buttons whose expressions the model evaluates; the buttons for
\* x^3, sin, cos, tan, sqrt, abs and the logarithms (addCustomLogFunction
\* among them) append an entry in the same way and need values the fractions
\* of the model do not have
PresetExprs == {"1/x"}

\* e.target.value of a number input, and Number() of it
TypedValues == {"20"}

ToNumber(s) ==
  IF s = "20" THEN Number(20) ELSE Number(0)

\* positions of the sliders (step 1)
SliderValues == {0}

ColorValues == {PRESET_COLORS[2]}

Bounds == {"xMin", "xMax", "yMin", "yMax"}

NoRun == [kind |-> "none", n |-> 0, from |-> InitialViewport]

LoopOff == [pc |-> "off", i |-> 0, st |-> LoopStart]

Ids == {functions[k].id : k \in 1..Len(functions)}

\* functions.map((f) => (f.id === id ? { ...f, expression } : f))
WithExpression(fs, id, expression) ==
  [k \in 1..Len(fs) |->
     IF fs[k].id = id THEN [fs[k] EXCEPT !.expression = expression] ELSE fs[k]]

\* functions.map((f) => (f.id === id ? { ...f, color } : f))
WithColor(fs, id, color) ==
  [k \in 1..Len(fs) |->
     IF fs[k].id = id THEN [fs[k] EXCEPT !.color = color] ELSE fs[k]]

\* functions.map((f) => (f.id === id ? { ...f, isVisible: !f.isVisible } : f))
WithVisibilityToggled(fs, id) ==
  [k \in 1..Len(fs) |->
     IF fs[k].id = id THEN [fs[k] EXCEPT !.isVisible = ~fs[k].isVisible] ELSE fs[k]]

\* functions.filter((f) => f.id !== id)
RECURSIVE FilterOut(_, _)
FilterOut(fs, id) ==
  IF fs = <<>> THEN <<>>
  ELSE IF Head(fs).id = id THEN FilterOut(Tail(fs), id)
  ELSE <<Head(fs)>> \o FilterOut(Tail(fs), id)

Init ==
  \E w \in {InitialWidth} :
    LET first == drawGraph(InitialFunctions, InitialViewport, CanvasOf(w), NoErrors)
    IN  /\ functions = InitialFunctions
        /\ functionErrors = first.errors
        /\ xMin = Number(-10) /\ xMax = Number(10)
        /\ yMin = Number(-10) /\ yMax = Number(10)
        /\ canvas = CanvasOf(w)
        /\ plot = first.plot
        /\ pending = FALSE
        /\ now = 2
        /\ zoomRun = NoRun
        /\ loop = LoopOff

\* a user event is handled once the effects of the previous render have run
UserEvent ==
  /\ ~pending
  /\ loop.pc = "off"
  /\ now < 2 + MaxEvents
  /\ now' = now + 1
  /\ UNCHANGED loop

KeepViewport == UNCHANGED <<xMin, xMax, yMin, yMax, zoomRun>>

KeepCanvas == UNCHANGED <<canvas, plot>>

\* generateId() is `func-${Date.now()}`: an id is modelled by its number, 1
\* for "func-1" and the time of the click for an added entry
addFunction ==
  /\ UserEvent
  /\ Len(functions) < MaxFuncs
  /\ functions' = Append(functions,
       [id |-> now, expression |-> "",
        color |-> PRESET_COLORS[(Len(functions) % 8) + 1], isVisible |-> TRUE])
  /\ pending' = TRUE
  /\ UNCHANGED functionErrors
  /\ KeepViewport /\ KeepCanvas

\* the remove button is rendered only when functions.length > 1
removeFunction(id) ==
  /\ UserEvent
  /\ Len(functions) > 1
  /\ functions' = FilterOut(functions, id)
  /\ functionErrors' = clearFunctionError(functionErrors, id)
  /\ pending' = TRUE
  /\ KeepViewport /\ KeepCanvas

updateExpression(id, expression) ==
  /\ UserEvent
  /\ functions' = WithExpression(functions, id, expression)
  /\ pending' = TRUE
  /\ UNCHANGED functionErrors
  /\ KeepViewport /\ KeepCanvas

updateColor(id, color) ==
  /\ UserEvent
  /\ functions' = WithColor(functions, id, color)
  /\ pending' = TRUE
  /\ UNCHANGED functionErrors
  /\ KeepViewport /\ KeepCanvas

toggleVisibility(id) ==
  /\ UserEvent
  /\ functions' = WithVisibilityToggled(functions, id)
  /\ pending' = TRUE
  /\ UNCHANGED functionErrors
  /\ KeepViewport /\ KeepCanvas

setPresetFunction(expression) ==
  /\ UserEvent
  /\ IF Len(functions) = 1 /\ functions[1].expression = ""
     THEN functions' = WithExpression(functions, functions[1].id, expression)
     ELSE /\ Len(functions) < MaxFuncs
          /\ functions' = Append(functions,
               [id |-> now, expression |-> expression,
                color |-> PRESET_COLORS[(Len(functions) % 8) + 1],
                isVisible |-> TRUE])
  /\ pending' = TRUE
  /\ UNCHANGED functionErrors
  /\ KeepViewport /\ KeepCanvas

\* the four bounds after a handler, and whether the render that follows sees
\* a changed dependency
SetViewport(vp) ==
  /\ xMin' = vp.xMin /\ xMax' = vp.xMax
  /\ yMin' = vp.yMin /\ yMax' = vp.yMax

\* variant of the zoom with setYMax(xMax * 0.8)
ZoomedInTypo(vp) ==
  [xMin |-> Mul(vp.xMin, Num(4, 5)), xMax |-> Mul(vp.xMax, Num(4, 5)),
   yMin |-> Mul(vp.yMin, Num(4, 5)), yMax |-> Mul(vp.xMax, Num(4, 5))]

ZoomedIn(vp) ==
  [xMin |-> Mul(vp.xMin, Num(4, 5)), xMax |-> Mul(vp.xMax, Num(4, 5)),
   yMin |-> Mul(vp.yMin, Num(4, 5)), yMax |-> Mul(vp.yMax, Num(4, 5))]

ZoomedOut(vp) ==
  [xMin |-> Mul(vp.xMin, Num(6, 5)), xMax |-> Mul(vp.xMax, Num(6, 5)),
   yMin |-> Mul(vp.yMin, Num(6, 5)), yMax |-> Mul(vp.yMax, Num(6, 5))]

handleZoomIn ==
  /\ UserEvent
  /\ SetViewport(ZoomedIn(Viewport))
  /\ pending' = (ZoomedIn(Viewport) # Viewport)
  /\ zoomRun' = IF zoomRun.kind = "in"
                THEN [zoomRun EXCEPT !.n = @ + 1]
                ELSE [kind |-> "in", n |-> 1, from |-> Viewport]
  /\ UNCHANGED <<functions, functionErrors>>
  /\ KeepCanvas

handleZoomOut ==
  /\ UserEvent
  /\ SetViewport(ZoomedOut(Viewport))
  /\ pending' = (ZoomedOut(Viewport) # Viewport)
  /\ zoomRun' = IF zoomRun.kind = "out"
                THEN [zoomRun EXCEPT !.n = @ + 1]
                ELSE [kind |-> "out", n |-> 1, from |-> Viewport]
  /\ UNCHANGED <<functions, functionErrors>>
  /\ KeepCanvas

handleReset ==
  /\ UserEvent
  /\ SetViewport(InitialViewport)
  /\ functions' = InitialFunctions
  /\ functionErrors' = NoErrors
  /\ pending' = TRUE
  /\ zoomRun' = NoRun
  /\ KeepCanvas

\* variant of a bound edit that also empties the status map
SetBoundClearingErrors(which, v) ==
  /\ SetViewport([Viewport EXCEPT ![which] = v])
  /\ pending' = (Viewport[which] # v)
  /\ zoomRun' = NoRun
  /\ functionErrors' = NoErrors
  /\ UNCHANGED functions
  /\ KeepCanvas

\* setXMin, setXMax, setYMin or setYMax with the value v
SetBound(which, v) ==
  /\ SetViewport([Viewport EXCEPT ![which] = v])
  /\ pending' = (Viewport[which] # v)
  /\ zoomRun' = NoRun
  /\ UNCHANGED <<functions, functionErrors>>
  /\ KeepCanvas

\* onChange of a number input
NumberInput(which, value) ==
  /\ UserEvent
  /\ SetBound(which, ToNumber(value))

\* onValueChange of a slider; the min sliders range over -100..0 and the max
\* sliders over 0..100
SliderChange(which, value) ==
  /\ UserEvent
  /\ IF which \in {"xMin", "yMin"}
     THEN value >= -100 /\ value <= 0
     ELSE value >= 0 /\ value <= 100
  /\ SetBound(which, Number(value))

\* useEffect(() => { drawGraph() }, [functions, xMin, xMax, yMin, yMax])
redrawEffect ==
  /\ pending
  /\ loop.pc = "off"
  /\ LET r == drawGraph(functions, Viewport, canvas, functionErrors)
     IN  /\ plot' = r.plot
         /\ functionErrors' = r.errors
  /\ pending' = FALSE
  /\ UNCHANGED <<functions, xMin, xMax, yMin, yMax, canvas, now, zoomRun, loop>>

\* the resize listener registered by useEffect(..., []) at mount: its
\* drawGraph is the closure of the first render
handleResize(w) ==
  /\ UserEvent
  /\ canvas' = CanvasOf(w)
  /\ LET r == drawGraph(InitialFunctions, InitialViewport, CanvasOf(w),
                        functionErrors)
     IN  /\ plot' = r.plot
         /\ functionErrors' = r.errors
  /\ UNCHANGED <<functions, xMin, xMax, yMin, yMax, pending, zoomRun>>

Next ==
  \/ addFunction
  \/ \E id \in Ids : removeFunction(id)
  \/ \E id \in Ids, e \in EditExprs : updateExpression(id, e)
  \/ \E id \in Ids, c \in ColorValues : updateColor(id, c)
  \/ \E id \in Ids : toggleVisibility(id)
  \/ \E e \in PresetExprs : setPresetFunction(e)
  \/ handleZoomIn
  \/ handleZoomOut
  \/ handleReset
  \/ \E which \in Bounds, s \in TypedValues : NumberInput(which, s)
  \/ \E which \in Bounds, v \in SliderValues : SliderChange(which, v)
  \/ redrawEffect
  \/ \E w \in Widths : handleResize(w)

Spec == Init /\ [][Next]_vars

----------------------------------------------------------------------------
(* One forEach callback of drawGraph run step by step: the parse, the      *)
(* column loop one iteration at a time, the stroke.  The canvas holds the  *)
(* axes and the grid when the callback starts.                             *)

LoopExprs == {" ", "x^2", "1/x", "0/x", "y", "x+"}

LoopWidths == {10, 500}

LoopErrors == {NoErrors, setFunctionError(NoErrors, 1, "Value expected (char 1)")}

PlotInit ==
  \E e \in LoopExprs, w \in LoopWidths, errors \in LoopErrors :
    /\ functions = <<[InitialFunctions[1] EXCEPT !.expression = e]>>
    /\ functionErrors = errors
    /\ xMin = Number(-10) /\ xMax = Number(10)
    /\ yMin = Number(-10) /\ yMax = Number(10)
    /\ canvas = CanvasOf(w)
    /\ plot = [drawGraph(<<>>, InitialViewport, CanvasOf(w), errors).plot
                 EXCEPT !.functions = <<[InitialFunctions[1] EXCEPT !.expression = e]>>]
    /\ pending = TRUE
    /\ now = 2
    /\ zoomRun = NoRun
    /\ loop = [pc |-> "enter", i |-> 0, st |-> LoopStart]

KeepState ==
  UNCHANGED <<functions, xMin, xMax, yMin, yMax, canvas, pending, now, zoomRun>>

\* the visibility and blank test, then parse(func.expression)
callbackEnter ==
  /\ loop.pc = "enter"
  /\ IF ~functions[1].isVisible \/ Trim(functions[1].expression) = ""
     THEN loop' = [loop EXCEPT !.pc = "done"] /\ UNCHANGED functionErrors
     ELSE IF ParseMessage(functions[1].expression) # ""
     THEN /\ loop' = [loop EXCEPT !.pc = "done"]
          /\ functionErrors' = setFunctionError(functionErrors, functions[1].id,
                                 ParseMessage(functions[1].expression))
     ELSE loop' = [loop EXCEPT !.pc = "loop"] /\ UNCHANGED functionErrors
  /\ UNCHANGED plot
  /\ KeepState

\* one iteration of for (let i = 0; i < width; i++)
columnStep ==
  /\ loop.pc = "loop"
  /\ loop.i < canvas.width
  /\ loop' = [pc |-> "loop", i |-> loop.i + 1,
              st |-> SampleStep(loop.st, functions[1].expression, loop.i,
                                Viewport, canvas)]
  /\ UNCHANGED <<plot, functionErrors>>
  /\ KeepState

\* the loop is over: ctx.stroke() and clearFunctionError(func.id)
callbackStroke ==
  /\ loop.pc = "loop"
  /\ loop.i >= canvas.width
  /\ plot' = [plot EXCEPT !.strokes =
                Append(@, [id |-> functions[1].id, color |-> functions[1].color,
                           path |-> loop.st.path])]
  /\ functionErrors' = clearFunctionError(functionErrors, functions[1].id)
  /\ loop' = [loop EXCEPT !.pc = "done"]
  /\ KeepState

PlotNext == callbackEnter \/ columnStep \/ callbackStroke

PlotSpec == PlotInit /\ [][PlotNext]_vars

----------------------------------------------------------------------------
(* Vocabulary of the properties *)

Entries(fs) == {fs[k] : k \in 1..Len(fs)}

\* bounds a redraw may use: both ranges of strictly positive width
Valid(vp) == Lt(vp.xMin, vp.xMax) /\ Lt(vp.yMin, vp.yMax)

\* an entry the redraw does not skip
Drawable(f) == f.isVisible /\ Trim(f.expression) # ""

\* a drawable entry whose expression does not parse
Malformed(f) == Drawable(f) /\ ParseMessage(f.expression) # ""

HasStatus(errors, id) == id \in ErrorIds(errors)

StatusOf(errors, id) == IF HasStatus(errors, id) THEN errors[id] ELSE ""

PlotCanvas == [width |-> plot.width, height |-> plot.height]

\* the strokes of the plot made for the entry id
StrokesOf(id) == {k \in 1..Len(plot.strokes) : plot.strokes[k].id = id}

ExpressionOf(fs, id) == (CHOOSE f \in Entries(fs) : f.id = id).expression

\* the segments of a path: one per moveTo
Segments(path) == Cardinality({j \in 1..Len(path) : path[j].op = "moveTo"})

\* a column that contributes no point: the evaluation throws, the value is NaN
\* or infinite, or the pixel row is outside [0, H]
ColumnSkipped(expression, i, vp, cv) ==
  LET r == evaluate(expression, ColumnX(i, vp, cv))
      yPos == PixelY(r.y, vp, cv)
  IN  \/ r.throws
      \/ ~IsFinite(r.y)
      \/ Lt(yPos, Number(0)) \/ Lt(Number(cv.height), yPos)

\* the strokes drawGraph makes for the list fs with the bounds and canvas of
\* the plot
StrokesFor(fs, vp, cv) ==
  ForEach(fs, 1, [strokes |-> <<>>, errors |-> NoErrors], vp, cv).strokes

----------------------------------------------------------------------------
(* C1: a column whose evaluation fails or whose pixel row is off the canvas *)
(* closes the open segment: no line of a stroke joins a point at column i   *)
(* to a point at column j > i across a skipped column k, i < k < j; and 1/x *)
(* on the default window is drawn as at least two segments.                 *)

C1_NoLineAcrossGap ==
  \A k \in 1..Len(plot.strokes) :
    LET path == plot.strokes[k].path
        e == ExpressionOf(plot.functions, plot.strokes[k].id)
    IN  \A j \in 1..(Len(path) - 1) :
          path[j + 1].op = "lineTo" =>
            \A c \in (path[j].x + 1)..(path[j + 1].x - 1) :
              ~ColumnSkipped(e, c, plot.viewport, PlotCanvas)

C1_ReciprocalSplits ==
  \A k \in 1..Len(plot.strokes) :
    (/\ ExpressionOf(plot.functions, plot.strokes[k].id) = "1/x"
     /\ plot.viewport = InitialViewport)
    => Segments(plot.strokes[k].path) >= 2

C1_SkippedColumnClosesSegment == C1_NoLineAcrossGap /\ C1_ReciprocalSplits

(* C2: every redraw uses bounds with xMin < xMax and yMin < yMax, whatever  *)
(* zooms, resets and bound edits came before.                               *)

C2_RedrawViewportValid == Valid(plot.viewport)

(* C3: within one redraw a malformed entry gets a non-empty ParseFailed     *)
(* message and no stroke (its column loop never runs), and the other        *)
(* entries are validated and drawn exactly as if the malformed entries were *)
(* absent from the list, in either order.                                   *)

C3_PerFunctionIsolation ==
  ~pending =>
    LET WellFormed(f) == ~Malformed(f)
    IN  /\ \A f \in Entries(plot.functions) :
             Malformed(f) =>
               /\ StatusOf(functionErrors, f.id) # ""
               /\ StrokesOf(f.id) = {}
        /\ \A f \in Entries(plot.functions) :
             Drawable(f) /\ ~Malformed(f) => ~HasStatus(functionErrors, f.id)
        /\ plot.strokes =
             StrokesFor(SelectSeq(plot.functions, WellFormed), plot.viewport,
                        PlotCanvas)

C3_Witness ==
  /\ ~pending
  /\ plot.functions = functions
  /\ Len(functions) = 2
  /\ Malformed(functions[1])
  /\ StatusOf(functionErrors, functions[1].id) # ""
  /\ Drawable(functions[2]) /\ ~Malformed(functions[2])
  /\ \E k \in StrokesOf(functions[2].id) : plot.strokes[k].path # <<>>

(* C4: after a redraw a visible entry with a blank expression has no status *)
(* and, in a plot of the current list, no stroke.                           *)

C4_BlankEntryHasNoStatus ==
  ~pending =>
    \A f \in Entries(functions) :
      (f.isVisible /\ Trim(f.expression) = "") =>
        /\ ~HasStatus(functionErrors, f.id)
        /\ (plot.functions = functions => StrokesOf(f.id) = {})

(* C5: a redraw, by the effect or by a window resize, leaves the status of  *)
(* every hidden entry as it was and draws nothing for it.                   *)

Redraw == redrawEffect \/ \E w \in Widths : handleResize(w)

HiddenUntouched ==
  \A f \in Entries(functions) :
    ~f.isVisible =>
      /\ HasStatus(functionErrors', f.id) = HasStatus(functionErrors, f.id)
      /\ StatusOf(functionErrors', f.id) = StatusOf(functionErrors, f.id)
      /\ \A k \in 1..Len(plot'.strokes) : plot'.strokes[k].id # f.id

C5_HiddenEntrySkipped == [][Redraw => HiddenUntouched]_vars

(* C6: once the redraw of the last event is over, the strokes on the canvas *)
(* are those of the current list, bounds and canvas, and a drawable entry   *)
(* has a status exactly when its current expression does not parse.         *)

C6_RedrawOfCurrentSnapshot ==
  ~pending =>
    /\ plot.strokes = StrokesFor(functions, Viewport, canvas)
    /\ \A f \in Entries(functions) :
         Drawable(f) =>
           (HasStatus(functionErrors, f.id) <=> ParseMessage(f.expression) # "")

(* C7: a redraw with xMax <= xMin or yMax <= yMin draws nothing: no axis,   *)
(* no gridline and no point is computed from those bounds.                  *)

C7_InvalidViewportNotDrawn ==
  ~Valid(plot.viewport) =>
    /\ plot.axes = <<>>
    /\ plot.vGrid = <<>> /\ plot.hGrid = <<>>
    /\ \A k \in 1..Len(plot.strokes) : plot.strokes[k].path = <<>>

(* C8 as stated: zoomIn, zoomOut, reset and the bound edits leave the       *)
(* function list and the status map unchanged, and reset sets the bounds to *)
(* the default window.                                                      *)

BoundEdit ==
  \/ \E which \in Bounds, s \in TypedValues : NumberInput(which, s)
  \/ \E which \in Bounds, v \in SliderValues : SliderChange(which, v)

Zoom == handleZoomIn \/ handleZoomOut

C8_ViewportOpsKeepFunctions ==
  [][/\ (Zoom \/ BoundEdit \/ handleReset)
          => UNCHANGED <<functions, functionErrors>>
     /\ handleReset => Viewport' = InitialViewport]_vars

(* C8 amended: an entry leaves the function list only by the removal of its *)
(* id or by reset; zoomIn, zoomOut and the bound edits leave the function   *)
(* list and the status map unchanged; reset sets the bounds to the default  *)
(* window, the function list to the single initial entry and the status map *)
(* to empty.                                                                *)

IdsOf(fs) == {fs[k].id : k \in 1..Len(fs)}

C8_EntriesLeaveByRemovalOrReset ==
  [][/\ (Zoom \/ BoundEdit) => UNCHANGED <<functions, functionErrors>>
     /\ handleReset =>
          /\ Viewport' = InitialViewport
          /\ functions' = InitialFunctions
          /\ functionErrors' = NoErrors
     /\ ~(IdsOf(functions) \subseteq IdsOf(functions')) =>
          \/ handleReset
          \/ \E id \in Ids :
               /\ removeFunction(id)
               /\ IdsOf(functions') = IdsOf(functions) \ {id}
               /\ \A f \in Entries(functions) : f.id # id => f \in Entries(functions')]_vars

C8_Witness ==
  /\ zoomRun.kind = "in"
  /\ pending
  /\ Len(functions) = 2
  /\ ErrorIds(functionErrors) # {}

(* C9: a run of n zoomIn (zoomOut) operations leaves every bound at its     *)
(* value before the run times 0.8^n (1.2^n), each bound by itself; from     *)
(* bounds with xMin < xMax and yMin < yMax the result has xMin < xMax and   *)
(* yMin < yMax, and every bound keeps its sign.                             *)

RECURSIVE Power(_, _)
Power(q, n) == IF n = 0 THEN Number(1) ELSE Mul(q, Power(q, n - 1))

Scaled(vp, q) ==
  [xMin |-> Mul(vp.xMin, q), xMax |-> Mul(vp.xMax, q),
   yMin |-> Mul(vp.yMin, q), yMax |-> Mul(vp.yMax, q)]

SameSigns(vp, wp) == \A b \in Bounds : Sgn(vp[b].n) = Sgn(wp[b].n)

ZoomFactor == IF zoomRun.kind = "in" THEN Num(4, 5) ELSE Num(6, 5)

C9_ZoomScalesEachBound ==
  zoomRun.kind # "none" =>
    /\ Viewport = Scaled(zoomRun.from, Power(ZoomFactor, zoomRun.n))
    /\ SameSigns(Viewport, zoomRun.from)
    /\ Valid(zoomRun.from) => Valid(Viewport)

C9_Witness ==
  /\ zoomRun.kind = "in"
  /\ zoomRun.n = 2
  /\ Valid(zoomRun.from)
  /\ zoomRun.from # InitialViewport
  /\ zoomRun.from.yMax # zoomRun.from.xMax

(* C10 as stated: x^2 on the default window with W = 500 is one segment     *)
(* whose first point has domain x about -10 and whose pixel rows do not     *)
(* increase up to the column nearest x = 0 and do not decrease after it;    *)
(* no ParseFailed status.                                                   *)

ParabolaCase ==
  /\ loop.pc = "done"
  /\ functions[1].expression = "x^2"
  /\ canvas.width = 500
  /\ Viewport = InitialViewport

ParabolaPath == plot.strokes[1].path

Distance(a, b) == IF Lt(a, b) THEN Sub(b, a) ELSE Sub(a, b)

\* the column nearest x = 0
VertexColumn ==
  LET dist == [c \in 0..(canvas.width - 1) |->
                 Distance(ColumnX(c, Viewport, canvas), Number(0))]
  IN  CHOOSE c \in DOMAIN dist : \A o \in DOMAIN dist : ~Lt(dist[o], dist[c])

About(a, b) == ~Lt(Num(1, 10), Distance(a, b))

OneSegmentNoStatus ==
  /\ Len(plot.strokes) = 1
  /\ ParabolaPath # <<>>
  /\ Segments(ParabolaPath) = 1
  /\ ~HasStatus(functionErrors, functions[1].id)

C10_ParabolaFromLeftEdge ==
  ParabolaCase =>
    /\ OneSegmentNoStatus
    /\ About(ColumnX(ParabolaPath[1].x, Viewport, canvas), Number(-10))
    /\ \E vertex \in {VertexColumn} :
         \A j \in 1..(Len(ParabolaPath) - 1) :
           /\ ParabolaPath[j + 1].x <= vertex
                => ~Lt(ParabolaPath[j].y, ParabolaPath[j + 1].y)
           /\ ParabolaPath[j].x >= vertex
                => ~Lt(ParabolaPath[j + 1].y, ParabolaPath[j].y)

(* C10 amended: x^2 on the default window with W = 500 is one segment whose *)
(* first point is at column 171, domain x = -3.16, the first column with    *)
(* x^2 <= 10; its pixel rows do not decrease up to the column nearest       *)
(* x = 0 and do not increase after it; no ParseFailed status.               *)

C10_ParabolaInsideWindow ==
  ParabolaCase =>
    /\ OneSegmentNoStatus
    /\ ParabolaPath[1].x = 171
    /\ ColumnX(ParabolaPath[1].x, Viewport, canvas) = Num(-316, 100)
    /\ \A c \in 0..170 :
         Lt(Number(10), Mul(ColumnX(c, Viewport, canvas), ColumnX(c, Viewport, canvas)))
    /\ \E vertex \in {VertexColumn} :
         \A j \in 1..(Len(ParabolaPath) - 1) :
           /\ ParabolaPath[j + 1].x <= vertex
                => ~Lt(ParabolaPath[j + 1].y, ParabolaPath[j].y)
           /\ ParabolaPath[j].x >= vertex
                => ~Lt(ParabolaPath[j].y, ParabolaPath[j + 1].y)

C10_Witness ==
  /\ ParabolaCase
  /\ Len(plot.strokes) = 1
  /\ Len(ParabolaPath) > 100
  /\ \E vertex \in {VertexColumn} :
       \E j \in 2..(Len(ParabolaPath) - 1) : ParabolaPath[j].x = vertex

-----------------------------------------------------------------------------
(* C11: the grid lines of a redraw *)

\* the integers on which the grid lines of the sequence grid stand
GridAt(grid) == {grid[k].at : k \in 1..Len(grid)}

\* the lines of grid stand on increasing integers
Increasing(grid) ==
  \A k \in 1..(Len(grid) - 1) : grid[k].at < grid[k + 1].at

\* every vertical line stands at pixel-x W*(n - xMin)/(xMax - xMin) and every
\* horizontal line at pixel-y H*(yMax - n)/(yMax - yMin)
GridPositions ==
  LET vp == plot.viewport
  IN  /\ \A k \in 1..Len(plot.vGrid) :
           plot.vGrid[k].pos =
             Div(Mul(Number(plot.width), Sub(Number(plot.vGrid[k].at), vp.xMin)),
                 Sub(vp.xMax, vp.xMin))
      /\ \A k \in 1..Len(plot.hGrid) :
           plot.hGrid[k].pos =
             Div(Mul(Number(plot.height), Sub(vp.yMax, Number(plot.hGrid[k].at))),
                 Sub(vp.yMax, vp.yMin))

\* C11 as stated: on a valid viewport the vertical grid lines stand exactly on
\* the integers n # 0 with ceil(xMin) < n < floor(xMax), in increasing order,
\* at pixel-x W*(n - xMin)/(xMax - xMin), and the horizontal ones likewise on
\* ceil(yMin) < n < floor(yMax) at pixel-y H*(yMax - n)/(yMax - yMin)
C11_GridStrictlyBetween ==
  LET vp == plot.viewport
  IN  Valid(vp) =>
        /\ GridAt(plot.vGrid)
             = ((Ceil(vp.xMin) + 1)..(Floor(vp.xMax) - 1)) \ {0}
        /\ GridAt(plot.hGrid)
             = ((Ceil(vp.yMin) + 1)..(Floor(vp.yMax) - 1)) \ {0}
        /\ Increasing(plot.vGrid) /\ Increasing(plot.hGrid)
        /\ GridPositions

\* C11 amended: on a valid viewport the vertical grid lines stand exactly on
\* the integers n # 0 with ceil(xMin) <= n <= floor(xMax), both ends
\* included, in increasing order, at pixel-x W*(n - xMin)/(xMax - xMin), and
\* the horizontal ones likewise on ceil(yMin) <= n <= floor(yMax) at pixel-y
\* H*(yMax - n)/(yMax - yMin)
C11_GridFromCeilToFloor ==
  LET vp == plot.viewport
  IN  Valid(vp) =>
        /\ GridAt(plot.vGrid) = (Ceil(vp.xMin)..Floor(vp.xMax)) \ {0}
        /\ GridAt(plot.hGrid) = (Ceil(vp.yMin)..Floor(vp.yMax)) \ {0}
        /\ Increasing(plot.vGrid) /\ Increasing(plot.hGrid)
        /\ GridPositions

\* a redraw after two zooms in: the window is [-6.4, 6.4] on both axes and
\* the first vertical line stands on -6 = ceil(xMin), the last horizontal
\* one on 6 = floor(yMax)
C11_Witness ==
  /\ ~pending
  /\ Valid(plot.viewport)
  /\ plot.viewport.xMin = Num(-64, 10)
  /\ plot.viewport.yMax = Num(64, 10)
  /\ Len(plot.vGrid) = 12 /\ Len(plot.hGrid) = 12
  /\ plot.vGrid[1].at = -6
  /\ plot.hGrid[12].at = 6

====
